---- MODULE Spec2Model ----
(***************************************************************************)
(* Device conditions for sensors                                           *)
(* (homeassistant/components/sensor/device_condition.py) and the demo      *)
(* device tracker (homeassistant/components/demo/device_tracker.py).       *)
(*                                                                         *)
(* The three condition operations are stateless request/response handlers: *)
(* the host calls one, the handler asks the host's registry and lookups,   *)
(* and returns or raises.  A state of Spec is the last call: its           *)
(* arguments, what every host lookup it made answered, and its outcome.    *)
(* The host's answers are inputs, drawn when the call is made.             *)
(*                                                                         *)
(* Python values are modelled as follows.  None is the string NONE.  A     *)
(* dict is a function whose domain is its set of keys.  An entity id       *)
(* "sensor.e2" is the record [domain |-> "sensor", object_id |-> 2].  A    *)
(* number or string given as a bound is a record [t |-> type, v |-> text]. *)
(***************************************************************************)
EXTENDS Integers, Sequences, FiniteSets, TLC

\* Largest number of registry entries of one call.
MaxEntries == 2

\* Largest number of invocations of the registered randomize service.
MaxCalls == 2

NONE == "<None>"
\* A lookup that was not made (the call had already raised).
NOT_CALLED == "<not called>"
\* The answer of a lookup that fails with the host-defined error.
RAISES == "<raises HomeAssistantError>"

SENSOR_DOMAIN == "sensor"
DEVICE_CLASS_NONE == "none"

CONF_TYPE == "type"
CONF_ENTITY_ID == "entity_id"
CONF_ABOVE == "above"
CONF_BELOW == "below"
CONF_CONDITION == "condition"
CONF_DEVICE_ID == "device_id"
CONF_DOMAIN == "domain"

CONF_IS_APPARENT_POWER == "is_apparent_power"
CONF_IS_BATTERY_LEVEL == "is_battery_level"
CONF_IS_CO == "is_carbon_monoxide"
CONF_IS_CO2 == "is_carbon_dioxide"
CONF_IS_CURRENT == "is_current"
CONF_IS_ENERGY == "is_energy"
CONF_IS_FREQUENCY == "is_frequency"
CONF_IS_HUMIDITY == "is_humidity"
CONF_IS_GAS == "is_gas"
CONF_IS_ILLUMINANCE == "is_illuminance"
CONF_IS_NITROGEN_DIOXIDE == "is_nitrogen_dioxide"
CONF_IS_NITROGEN_MONOXIDE == "is_nitrogen_monoxide"
CONF_IS_NITROUS_OXIDE == "is_nitrous_oxide"
CONF_IS_OZONE == "is_ozone"
CONF_IS_PM1 == "is_pm1"
CONF_IS_PM10 == "is_pm10"
CONF_IS_PM25 == "is_pm25"
CONF_IS_POWER == "is_power"
CONF_IS_POWER_FACTOR == "is_power_factor"
CONF_IS_PRESSURE == "is_pressure"
CONF_IS_REACTIVE_POWER == "is_reactive_power"
CONF_IS_SIGNAL_STRENGTH == "is_signal_strength"
CONF_IS_SULPHUR_DIOXIDE == "is_sulphur_dioxide"
CONF_IS_TEMPERATURE == "is_temperature"
CONF_IS_VOLATILE_ORGANIC_COMPOUNDS == "is_volatile_organic_compounds"
CONF_IS_VOLTAGE == "is_voltage"
CONF_IS_VALUE == "is_value"

\* A one-key dict {CONF_TYPE: t}.
Template(t) == [k \in {CONF_TYPE} |-> t]

\* The members of SensorDeviceClass that are keys of ENTITY_CONDITIONS, by value.
ENTITY_CONDITIONS ==
    [c \in {"apparent_power", "battery", "carbon_monoxide", "carbon_dioxide",
            "current", "energy", "frequency", "gas", "humidity", "illuminance",
            "nitrogen_dioxide", "nitrogen_monoxide", "nitrous_oxide", "ozone",
            "power", "power_factor", "pm1", "pm10", "pm25", "pressure",
            "reactive_power", "signal_strength", "sulphur_dioxide",
            "temperature", "volatile_organic_compounds", "voltage",
            DEVICE_CLASS_NONE} |->
        CASE c = "apparent_power" -> <<Template(CONF_IS_APPARENT_POWER)>>
          [] c = "battery" -> <<Template(CONF_IS_BATTERY_LEVEL)>>
          [] c = "carbon_monoxide" -> <<Template(CONF_IS_CO)>>
          [] c = "carbon_dioxide" -> <<Template(CONF_IS_CO2)>>
          [] c = "current" -> <<Template(CONF_IS_CURRENT)>>
          [] c = "energy" -> <<Template(CONF_IS_ENERGY)>>
          [] c = "frequency" -> <<Template(CONF_IS_FREQUENCY)>>
          [] c = "gas" -> <<Template(CONF_IS_GAS)>>
          [] c = "humidity" -> <<Template(CONF_IS_HUMIDITY)>>
          [] c = "illuminance" -> <<Template(CONF_IS_ILLUMINANCE)>>
          [] c = "nitrogen_dioxide" -> <<Template(CONF_IS_NITROGEN_DIOXIDE)>>
          [] c = "nitrogen_monoxide" -> <<Template(CONF_IS_NITROGEN_MONOXIDE)>>
          [] c = "nitrous_oxide" -> <<Template(CONF_IS_NITROUS_OXIDE)>>
          [] c = "ozone" -> <<Template(CONF_IS_OZONE)>>
          [] c = "power" -> <<Template(CONF_IS_POWER)>>
          [] c = "power_factor" -> <<Template(CONF_IS_POWER_FACTOR)>>
          [] c = "pm1" -> <<Template(CONF_IS_PM1)>>
          [] c = "pm10" -> <<Template(CONF_IS_PM10)>>
          [] c = "pm25" -> <<Template(CONF_IS_PM25)>>
          [] c = "pressure" -> <<Template(CONF_IS_PRESSURE)>>
          [] c = "reactive_power" -> <<Template(CONF_IS_REACTIVE_POWER)>>
          [] c = "signal_strength" -> <<Template(CONF_IS_SIGNAL_STRENGTH)>>
          [] c = "sulphur_dioxide" -> <<Template(CONF_IS_SULPHUR_DIOXIDE)>>
          [] c = "temperature" -> <<Template(CONF_IS_TEMPERATURE)>>
          [] c = "volatile_organic_compounds" ->
                 <<Template(CONF_IS_VOLATILE_ORGANIC_COMPOUNDS)>>
          [] c = "voltage" -> <<Template(CONF_IS_VOLTAGE)>>
          [] c = DEVICE_CLASS_NONE -> <<Template(CONF_IS_VALUE)>>]

\* SCHEMA_TYPES without CONF_IS_OZONE.
SCHEMA_TYPES_NoOzone ==
    <<CONF_IS_APPARENT_POWER, CONF_IS_BATTERY_LEVEL, CONF_IS_CO, CONF_IS_CO2,
      CONF_IS_CURRENT, CONF_IS_ENERGY, CONF_IS_FREQUENCY, CONF_IS_GAS,
      CONF_IS_HUMIDITY, CONF_IS_ILLUMINANCE,
      CONF_IS_NITROGEN_DIOXIDE, CONF_IS_NITROGEN_MONOXIDE,
      CONF_IS_NITROUS_OXIDE, CONF_IS_POWER, CONF_IS_POWER_FACTOR, CONF_IS_PM1,
      CONF_IS_PM10, CONF_IS_PM25, CONF_IS_PRESSURE, CONF_IS_REACTIVE_POWER,
      CONF_IS_SIGNAL_STRENGTH, CONF_IS_SULPHUR_DIOXIDE, CONF_IS_TEMPERATURE,
      CONF_IS_VOLATILE_ORGANIC_COMPOUNDS, CONF_IS_VOLTAGE, CONF_IS_VALUE>>

\* The list given to vol.In for CONF_TYPE in CONDITION_SCHEMA.
SCHEMA_TYPES ==
    <<CONF_IS_APPARENT_POWER, CONF_IS_BATTERY_LEVEL, CONF_IS_CO, CONF_IS_CO2,
      CONF_IS_CURRENT, CONF_IS_ENERGY, CONF_IS_FREQUENCY, CONF_IS_GAS,
      CONF_IS_HUMIDITY, CONF_IS_ILLUMINANCE, CONF_IS_OZONE,
      CONF_IS_NITROGEN_DIOXIDE, CONF_IS_NITROGEN_MONOXIDE,
      CONF_IS_NITROUS_OXIDE, CONF_IS_POWER, CONF_IS_POWER_FACTOR, CONF_IS_PM1,
      CONF_IS_PM10, CONF_IS_PM25, CONF_IS_PRESSURE, CONF_IS_REACTIVE_POWER,
      CONF_IS_SIGNAL_STRENGTH, CONF_IS_SULPHUR_DIOXIDE, CONF_IS_TEMPERATURE,
      CONF_IS_VOLATILE_ORGANIC_COMPOUNDS, CONF_IS_VOLTAGE, CONF_IS_VALUE>>

VARIABLES
    op,                   \* the operation of the last call, "idle" before any
    device_id,            \* async_get_conditions: its device_id argument
    registry,             \* async_get_conditions: the registry's entries at the call
    lookups,              \* async_get_conditions: per entry of the loop, what the host answered
    conditions,           \* async_get_conditions: the list it returned
    raised,               \* the error class the call raised, NONE when it returned
    message,              \* the raised error's message, a sequence of text pieces
    raw_config,           \* CONDITION_SCHEMA: the configuration given to it
    config,               \* the validated configuration (CONDITION_SCHEMA's output)
    config_ok,            \* whether config holds a configuration CONDITION_SCHEMA accepted
    from_catalog,         \* whether raw_config was built from a descriptor of the catalog
    numeric_state_config, \* async_condition_from_config: the dict built at lines 171-178
    unit_answer,          \* async_get_condition_capabilities: the unit lookup's answer
    extra_fields,         \* async_get_condition_capabilities: the fields of the returned schema
    pc,                   \* setup_scanner: its position
    seen_ids,             \* the dev_id of every see() call so far, in order
    last_see,             \* the keyword arguments of the last see() call
    registered,           \* the services registered with hass.services
    setup_result,         \* what setup_scanner returned, NONE before
    calls                 \* invocations of the registered service so far

condVars == <<op, device_id, registry, lookups, conditions, raised, message,
              raw_config, config, config_ok, from_catalog, numeric_state_config,
              unit_answer, extra_fields>>
trackerVars == <<pc, seen_ids, last_see, registered, setup_result, calls>>
vars == <<condVars, trackerVars>>

\* The empty dict, and the empty list.
EmptyDict == <<>>

\* Python's truth value of a lookup's answer: None and "" are false.
Falsy(x) == x = NONE \/ x = ""

\* d.get(k, default)
DictGet(d, k, default) == IF k \in DOMAIN d THEN d[k] ELSE default

\* {**a, **b}: the keys of both, b's value where both have the key.
DictMerge(a, b) ==
    [k \in DOMAIN a \cup DOMAIN b |-> IF k \in DOMAIN b THEN b[k] ELSE a[k]]

(***************************************************************************)
(* The host.                                                               *)
(***************************************************************************)
Devices == {"dev1", "dev2"}
Domains == {SENSOR_DOMAIN, "light"}

EntityId(d, n) == [domain |-> d, object_id |-> n]

\* A registry entry; its domain is the domain part of its entity id.
RegistryEntry(e, dev) == [entity_id |-> e, domain |-> e.domain, device_id |-> dev]

\* The registries of a call: up to MaxEntries entries, entry i being
\* "sensor.e<i>" or "light.e<i>" of either device.
Registries ==
    UNION {[1..n -> Domains \X Devices] : n \in 0..MaxEntries}

MakeRegistry(f) ==
    [i \in DOMAIN f |-> RegistryEntry(EntityId(f[i][1], i), f[i][2])]

\* async_entries_for_device: the registry's entries of the device, in order.
RECURSIVE async_entries_for_device(_, _)
async_entries_for_device(reg, dev) ==
    IF reg = <<>> THEN <<>>
    ELSE (IF Head(reg).device_id = dev THEN <<Head(reg)>> ELSE <<>>)
         \o async_entries_for_device(Tail(reg), dev)

\* What get_device_class may answer: None, "", a key of the table, or a
\* device class that is no key of the table ("timestamp").
DeviceClassAnswers ==
    {NONE, "", "timestamp"} \cup DOMAIN ENTITY_CONDITIONS

\* The answers that more than one entry of a call may get at once.
DeviceClassSample ==
    {NONE, "timestamp", DEVICE_CLASS_NONE, "temperature"}

\* What get_unit_of_measurement may answer: None, "", a unit, or the error.
UnitAnswers == {NONE, "", "°C", RAISES}

(***************************************************************************)
(* async_get_conditions                                                    *)
(***************************************************************************)
\* Lines 135-139: the device's entries of the sensor domain.
RECURSIVE EntriesOfDomain(_, _)
EntriesOfDomain(entries, domain) ==
    IF entries = <<>> THEN <<>>
    ELSE (IF Head(entries).domain = domain THEN <<Head(entries)>> ELSE <<>>)
         \o EntriesOfDomain(Tail(entries), domain)

\* SensorEntries without the domain test of line 138.
SensorEntries_AnyDomain(reg, dev) == async_entries_for_device(reg, dev)

SensorEntries(reg, dev) ==
    EntriesOfDomain(async_entries_for_device(reg, dev), SENSOR_DOMAIN)

\* Line 142: get_device_class(...) or DEVICE_CLASS_NONE
DeviceClassOf(answer) == IF Falsy(answer) THEN DEVICE_CLASS_NONE ELSE answer

\* TemplatesFor with an empty default instead of the "none" templates.
TemplatesFor_NoFallback(device_class) == DictGet(ENTITY_CONDITIONS, device_class, <<>>)

\* Lines 148-150
TemplatesFor(device_class) ==
    DictGet(ENTITY_CONDITIONS, device_class, ENTITY_CONDITIONS[DEVICE_CLASS_NONE])

\* SkipEntry testing "is None" instead of the truth value.
SkipEntry_NoneOnly(unit_of_measurement) == unit_of_measurement = NONE

\* Line 145: the entry is skipped
SkipEntry(unit_of_measurement) == Falsy(unit_of_measurement)

\* Lines 153-159: one descriptor
Descriptor(template, dev, entry) ==
    DictMerge(template,
              [condition |-> "device", device_id |-> dev,
               entity_id |-> entry.entity_id, domain |-> SENSOR_DOMAIN])

\* Lines 152-161: the descriptors of one entry, one per template
EntryConditions(templates, dev, entry) ==
    [t \in DOMAIN templates |-> Descriptor(templates[t], dev, entry)]

\* ConditionsLoop with the unit lookup wrapped as in the capability builder:
\* a failing lookup counts as no unit and the entry is skipped.
RECURSIVE ConditionsLoop_CatchesError(_, _, _, _, _, _)
ConditionsLoop_CatchesError(entries, dev, dc, uom, i, acc) ==
    IF i > Len(entries) THEN [raised |-> NONE, conditions |-> acc]
    ELSE IF uom[i] \in {RAISES, NOT_CALLED} \/ Falsy(uom[i])
         THEN ConditionsLoop_CatchesError(entries, dev, dc, uom, i + 1, acc)
    ELSE ConditionsLoop_CatchesError(entries, dev, dc, uom, i + 1,
             acc \o EntryConditions(TemplatesFor(DeviceClassOf(dc[i])), dev, entries[i]))

\* Lines 141-163: the loop from entry i on, acc being the list so far.
\* dc[i] and uom[i] are the host's answers for entry i.  The result is the
\* list returned, or the error that left the loop (no handler encloses the
\* lookups, so the host's error leaves the function).
RECURSIVE ConditionsLoop(_, _, _, _, _, _)
ConditionsLoop(entries, dev, dc, uom, i, acc) ==
    IF i > Len(entries) THEN [raised |-> NONE, conditions |-> acc]
    ELSE IF uom[i] = RAISES
         THEN [raised |-> "HomeAssistantError", conditions |-> <<>>]
    ELSE IF SkipEntry(uom[i])
         THEN ConditionsLoop(entries, dev, dc, uom, i + 1, acc)
    ELSE ConditionsLoop(entries, dev, dc, uom, i + 1,
             acc \o EntryConditions(TemplatesFor(DeviceClassOf(dc[i])), dev, entries[i]))

\* The lookups of a call over n entries, the unit lookup raising at entry
\* stop (0: never): every lookup up to entry stop is made, none after it.
Made(n, stop) == IF stop = 0 THEN n ELSE stop

\* At most one entry of a call (entry wide; 0: none) gets a device class
\* outside DeviceClassSample, and the unit lookup raises at entry stop only.
DeviceClassAnswersFor(m, wide) ==
    IF wide = 0 THEN [1..m -> DeviceClassSample]
    ELSE {[f EXCEPT ![wide] = c] :
             f \in [1..m -> DeviceClassSample],
             c \in DeviceClassAnswers \ DeviceClassSample}

UnitAnswersFor(m, stop) ==
    IF stop = 0 THEN [1..m -> UnitAnswers \ {RAISES}]
    ELSE {[f EXCEPT ![stop] = RAISES] : f \in [1..m -> UnitAnswers \ {RAISES}]}

\* The answers as the call saw them, NOT_CALLED for a lookup it never made.
Pad(f, n) == [i \in 1..n |-> IF i \in DOMAIN f THEN f[i] ELSE NOT_CALLED]

ResetConfig ==
    /\ raw_config' = EmptyDict
    /\ config' = EmptyDict
    /\ config_ok' = FALSE
    /\ from_catalog' = FALSE
    /\ numeric_state_config' = EmptyDict

ResetCatalog ==
    /\ device_id' = NONE
    /\ registry' = <<>>
    /\ lookups' = <<>>
    /\ conditions' = <<>>

ResetCapabilities ==
    /\ unit_answer' = NOT_CALLED
    /\ extra_fields' = {}

async_get_conditions ==
    /\ op = "idle"
    /\ \E f \in Registries, dev \in Devices :
        LET reg == MakeRegistry(f)
            entries == SensorEntries(reg, dev)
            n == Len(entries)
        IN  \E stop \in 0..n : \E wide \in 0..Made(n, stop) :
            \E adc \in DeviceClassAnswersFor(Made(n, stop), wide),
               auom \in UnitAnswersFor(Made(n, stop), stop) :
                LET dc == Pad(adc, n)
                    uom == Pad(auom, n)
                    r == ConditionsLoop(entries, dev, dc, uom, 1, <<>>)
                IN  /\ op' = "async_get_conditions"
                    /\ device_id' = dev
                    /\ registry' = reg
                    /\ lookups' = [i \in 1..n |->
                                     [entity_id |-> entries[i].entity_id,
                                      device_class |-> dc[i],
                                      unit_of_measurement |-> uom[i]]]
                    /\ conditions' = r.conditions
                    /\ raised' = r.raised
                    /\ message' = <<>>
    /\ ResetConfig
    /\ ResetCapabilities
    /\ UNCHANGED trackerVars

(***************************************************************************)
(* CONDITION_SCHEMA                                                        *)
(***************************************************************************)
\* Values a user may give as a bound: 5, "7.5", "abc", 2.5.
PyInt5 == [t |-> "int", v |-> "5"]
PyStr75 == [t |-> "str", v |-> "7.5"]
PyStrAbc == [t |-> "str", v |-> "abc"]
PyFloat25 == [t |-> "float", v |-> "2.5"]
BoundChoices == <<PyInt5, PyStr75, PyStrAbc, PyFloat25>>

\* float(x): the float, or no float (ValueError) for text that is no number.
PyFloat(x) ==
    CASE x = PyInt5 -> [ok |-> TRUE, value |-> [t |-> "float", v |-> "5.0"]]
      [] x = PyStr75 -> [ok |-> TRUE, value |-> [t |-> "float", v |-> "7.5"]]
      [] x.t = "float" -> [ok |-> TRUE, value |-> x]
      [] OTHER -> [ok |-> FALSE, value |-> x]

\* Lines 121-122: vol.Any(vol.Coerce(float))
CoerceFloat(x) == PyFloat(x)

\* Lines 90-120: vol.In([...])
TypeIn(t) == \E i \in DOMAIN SCHEMA_TYPES : SCHEMA_TYPES[i] = t

\* cv.entity_id: the text has the form <domain>.<object_id>.
InvalidEntityId == [domain |-> "", object_id |-> 0]
ValidEntityId(e) == e.domain # ""

\* cv.DEVICE_CONDITION_BASE_SCHEMA: condition "device", a device id, a domain.
BaseRequired == {CONF_CONDITION, CONF_DEVICE_ID, CONF_DOMAIN}
BaseValid(c) == c[CONF_CONDITION] = "device"

\* Line 125: cv.has_at_least_one_key(CONF_BELOW, CONF_ABOVE)
HasAtLeastOneKey(c, keys) == \E k \in keys : k \in DOMAIN c

\* Lines 87-124: the extended schema.  Its required keys must be there, no
\* other key may be, and every value must pass its validator; the output
\* holds the validated values.
ExtendedSchema(c) ==
    LET required == BaseRequired \cup {CONF_ENTITY_ID, CONF_TYPE}
        optional == {CONF_BELOW, CONF_ABOVE}
        ok == /\ required \subseteq DOMAIN c
              /\ DOMAIN c \subseteq required \cup optional
              /\ BaseValid(c)
              /\ ValidEntityId(c[CONF_ENTITY_ID])
              /\ TypeIn(c[CONF_TYPE])
              /\ \A k \in optional \cap DOMAIN c : CoerceFloat(c[k]).ok
    IN  [ok |-> ok,
         value |-> IF ok
                   THEN [k \in DOMAIN c |->
                            IF k \in optional THEN CoerceFloat(c[k]).value ELSE c[k]]
                   ELSE EmptyDict]

\* CONDITION_SCHEMA without the has_at_least_one_key step of line 125.
CONDITION_SCHEMA_NoKeyCheck(c) == ExtendedSchema(c)

\* Lines 86-126: vol.All(the extended schema, has_at_least_one_key)
CONDITION_SCHEMA(c) ==
    LET first == ExtendedSchema(c)
    IN  IF first.ok /\ HasAtLeastOneKey(first.value, {CONF_BELOW, CONF_ABOVE})
        THEN first
        ELSE [ok |-> FALSE, value |-> EmptyDict]

\* The bounds of a configuration: choice 0 leaves the bound out.
Bounds(ia, ib) ==
    [k \in (IF ia = 0 THEN {} ELSE {CONF_ABOVE})
           \cup (IF ib = 0 THEN {} ELSE {CONF_BELOW}) |->
        IF k = CONF_ABOVE THEN BoundChoices[ia] ELSE BoundChoices[ib]]

\* The other fields of a configuration given by a user.
FieldChoices ==
         [condition : {"device", "state"},
            device_id : {"dev1", NONE},
            domain : {SENSOR_DOMAIN},
            entity_id : {EntityId(SENSOR_DOMAIN, 1), InvalidEntityId},
            type : {SCHEMA_TYPES[i] : i \in DOMAIN SCHEMA_TYPES}
                   \cup {"is_bogus", "is_battery", NONE},
            extra : {"00:05:00", NONE}]

\* The dict of the fields that are given (not NONE).
Fields(f) ==
    [k \in {CONF_CONDITION, CONF_DOMAIN, CONF_ENTITY_ID}
           \cup (IF f.device_id = NONE THEN {} ELSE {CONF_DEVICE_ID})
           \cup (IF f.type = NONE THEN {} ELSE {CONF_TYPE})
           \cup (IF f.extra = NONE THEN {} ELSE {"for"}) |->
        IF k = "for" THEN f.extra ELSE f[k]]

Validated(raw, catalog) ==
    LET r == CONDITION_SCHEMA(raw)
    IN  /\ op' = "CONDITION_SCHEMA"
        /\ raw_config' = raw
        /\ config' = r.value
        /\ config_ok' = r.ok
        /\ raised' = IF r.ok THEN NONE ELSE "Invalid"
        /\ message' = <<>>
        /\ from_catalog' = catalog
        /\ numeric_state_config' = EmptyDict
        /\ ResetCatalog
        /\ ResetCapabilities
        /\ UNCHANGED trackerVars

\* The host validates a configuration a user wrote.
Validate ==
    /\ op = "idle"
    /\ \E f \in FieldChoices, ia \in 0..Len(BoundChoices), ib \in 0..Len(BoundChoices) :
           Validated(DictMerge(Fields(f), Bounds(ia, ib)), FALSE)

\* The host validates a descriptor of the catalog that a user completed
\* with at least one bound (5 or "abc").
Configure ==
    /\ op = "async_get_conditions"
    /\ raised = NONE
    /\ \E i \in DOMAIN conditions :
       \E ia \in {0, 1, 3}, ib \in {0, 1, 3} :
           /\ ia # 0 \/ ib # 0
           /\ Validated(DictMerge(conditions[i], Bounds(ia, ib)), TRUE)

(***************************************************************************)
(* async_condition_from_config                                             *)
(***************************************************************************)
\* NumericStateConfig with line 178 writing CONF_ABOVE instead of CONF_BELOW.
NumericStateConfig_BelowIntoAbove(c) ==
    [k \in {CONF_CONDITION, CONF_ENTITY_ID}
           \cup (IF CONF_ABOVE \in DOMAIN c \/ CONF_BELOW \in DOMAIN c
                 THEN {CONF_ABOVE} ELSE {}) |->
        CASE k = CONF_CONDITION -> "numeric_state"
          [] k = CONF_ENTITY_ID -> c[CONF_ENTITY_ID]
          [] k = CONF_ABOVE -> IF CONF_BELOW \in DOMAIN c
                               THEN c[CONF_BELOW] ELSE c[CONF_ABOVE]]

\* Lines 171-178: the numeric_state configuration
NumericStateConfig(c) ==
    [k \in {CONF_CONDITION, CONF_ENTITY_ID}
           \cup (IF CONF_ABOVE \in DOMAIN c THEN {CONF_ABOVE} ELSE {})
           \cup (IF CONF_BELOW \in DOMAIN c THEN {CONF_BELOW} ELSE {}) |->
        CASE k = CONF_CONDITION -> "numeric_state"
          [] k = CONF_ENTITY_ID -> c[CONF_ENTITY_ID]
          [] k = CONF_ABOVE -> c[CONF_ABOVE]
          [] k = CONF_BELOW -> c[CONF_BELOW]]

\* The host compiles a configuration only after CONDITION_SCHEMA accepted
\* it.  Lines 180-184 hand the dict built here to the host's validators and
\* evaluator factory.
async_condition_from_config ==
    /\ op = "CONDITION_SCHEMA"
    /\ config_ok
    /\ op' = "async_condition_from_config"
    /\ numeric_state_config' = NumericStateConfig(config)
    /\ UNCHANGED <<device_id, registry, lookups, conditions, raised, message,
                   raw_config, config, config_ok, from_catalog, unit_answer,
                   extra_fields>>
    /\ UNCHANGED trackerVars

(***************************************************************************)
(* async_get_condition_capabilities                                        *)
(***************************************************************************)
\* Lines 189-192: the unit, None when the lookup raises
UnitOrNone(answer) == IF answer = RAISES THEN NONE ELSE answer

\* Lines 195-197: the message of the error.  text is the message's text and
\* args the values formatted into it.  The literal is no f-string: the
\* braces are part of the text and nothing is formatted into it.
NoUnitMessage(c) ==
    [text |-> "No unit of measurement found for condition entity {config[CONF_ENTITY_ID]}",
     args |-> <<>>]

\* ExtraFields with the suffix left off the CONF_BELOW field.
ExtraFields_NoSuffixBelow(unit_of_measurement) ==
    {[key |-> CONF_ABOVE, marker |-> "Optional",
      suffix |-> unit_of_measurement, validator |-> "Coerce(float)"],
     [key |-> CONF_BELOW, marker |-> "Optional",
      suffix |-> NONE, validator |-> "Coerce(float)"]}

\* Lines 199-210: the fields of the schema under "extra_fields"
ExtraFields(unit_of_measurement) ==
    {[key |-> CONF_ABOVE, marker |-> "Optional",
      suffix |-> unit_of_measurement, validator |-> "Coerce(float)"],
     [key |-> CONF_BELOW, marker |-> "Optional",
      suffix |-> unit_of_measurement, validator |-> "Coerce(float)"]}

CapabilityEntities ==
    {EntityId(d, n) : d \in Domains, n \in 1..MaxEntries}

async_get_condition_capabilities ==
    /\ op = "idle"
    /\ \E e \in CapabilityEntities, answer \in UnitAnswers \cup {"W"} :
        LET c == [k \in {CONF_ENTITY_ID} |-> e]
            unit_of_measurement == UnitOrNone(answer)
        IN  /\ op' = "async_get_condition_capabilities"
            /\ raw_config' = c
            /\ unit_answer' = answer
            /\ IF Falsy(unit_of_measurement)
               THEN /\ raised' = "InvalidDeviceAutomationConfig"
                    /\ message' = <<NoUnitMessage(c)>>
                    /\ extra_fields' = {}
               ELSE /\ raised' = NONE
                    /\ message' = <<>>
                    /\ extra_fields' = ExtraFields(unit_of_measurement)
    /\ config' = EmptyDict
    /\ config_ok' = FALSE
    /\ from_catalog' = FALSE
    /\ numeric_state_config' = EmptyDict
    /\ ResetCatalog
    /\ UNCHANGED trackerVars

\* The host takes the call's outcome; the handlers keep nothing between calls.
Return ==
    /\ op \notin {"idle"}
    /\ op' = "idle"
    /\ raised' = NONE
    /\ message' = <<>>
    /\ ResetCatalog
    /\ ResetConfig
    /\ ResetCapabilities
    /\ UNCHANGED trackerVars

(***************************************************************************)
(* The demo device tracker: setup_scanner                                  *)
(***************************************************************************)
TRACKER_DOMAIN == "demo"
SERVICE_RANDOMIZE_DEVICE_TRACKER_DATA == "randomize_device_tracker_data"

\* RandRange with the stop value included, as random.randint has it.
RandRange_Inclusive(start, stop) == start..stop

\* random.randrange(start, stop): start <= n < stop
RandRange(start, stop) == start..(stop - 1)

\* The draws of random.randrange(500, 2000) that offset() is followed for.
OffsetDraws == {500, 1999}

\* Line 16: offset(), in units of 1/2e5 degree
Offsets == {n * sign : n \in RandRange(500, 2000) \cap OffsetDraws, sign \in {-1, 1}}

\* Lines 20-26: the keyword arguments random_see(dev_id, name) may give see();
\* gps is relative to (hass.config.latitude, hass.config.longitude).
RandomSeeArgs(dev_id, name) ==
    [dev_id : {dev_id},
     host_name : {name},
     gps : Offsets \X Offsets,
     gps_accuracy : RandRange(50, 150),
     battery : RandRange(10, 90)]

\* Lines 35-41: the keyword arguments of the call for demo_home_boy;
\* 0.00002 degree is 4/2e5.
HomeBoyArgs ==
    [dev_id |-> "demo_home_boy",
     host_name |-> "Home Boy",
     gps |-> <<-4, 4>>,
     gps_accuracy |-> 20,
     battery |-> 53]

\* Lines 28-31: the calls of observe(), in order
ObserveCalls == <<<<"demo_paulus", "Paulus">>, <<"demo_anne_therese", "Anne Therese">>>>

\* A call of see(): the arguments are the caller's until see() returns.
See(args) ==
    /\ last_see' = args
    /\ seen_ids' = Append(seen_ids, args.dev_id)

\* Lines 30-31 in observe(): call i of ObserveCalls is made; pc names the
\* caller (setup_scanner at line 33, or the service) and the call.
ObserveSee(caller, i, next) ==
    /\ pc = <<caller, "observe", i>>
    /\ \E args \in RandomSeeArgs(ObserveCalls[i][1], ObserveCalls[i][2]) : See(args)
    /\ pc' = <<caller, "in_see", next>>

\* see() returns to its caller.
SeeReturns ==
    /\ pc[2] = "in_see"
    /\ last_see' = EmptyDict
    /\ pc' = IF pc[3] = 0 THEN <<pc[1], "after_observe", 0>> ELSE <<pc[1], "observe", pc[3]>>
    /\ UNCHANGED <<seen_ids, registered, setup_result, calls>>
    /\ UNCHANGED condVars

\* Line 33: setup_scanner calls observe().
SetupObserve ==
    /\ \E i \in DOMAIN ObserveCalls :
           ObserveSee("setup_scanner", i, IF i = Len(ObserveCalls) THEN 0 ELSE i + 1)
    /\ UNCHANGED <<registered, setup_result, calls>>
    /\ UNCHANGED condVars

\* Lines 35-41
SetupSeeHomeBoy ==
    /\ pc = <<"setup_scanner", "after_observe", 0>>
    /\ See(HomeBoyArgs)
    /\ pc' = <<"setup_scanner", "in_see_home_boy", 0>>
    /\ UNCHANGED <<registered, setup_result, calls>>
    /\ UNCHANGED condVars

HomeBoySeeReturns ==
    /\ pc = <<"setup_scanner", "in_see_home_boy", 0>>
    /\ last_see' = EmptyDict
    /\ pc' = <<"setup_scanner", "register", 0>>
    /\ UNCHANGED <<seen_ids, registered, setup_result, calls>>
    /\ UNCHANGED condVars

\* Line 43
SetupRegister ==
    /\ pc = <<"setup_scanner", "register", 0>>
    /\ registered' = registered \cup
           {<<TRACKER_DOMAIN, SERVICE_RANDOMIZE_DEVICE_TRACKER_DATA>>}
    /\ pc' = <<"setup_scanner", "return", 0>>
    /\ UNCHANGED <<seen_ids, last_see, setup_result, calls>>
    /\ UNCHANGED condVars

\* Line 45
SetupReturn ==
    /\ pc = <<"setup_scanner", "return", 0>>
    /\ setup_result' = "True"
    /\ pc' = <<"host", "ready", 0>>
    /\ UNCHANGED <<seen_ids, last_see, registered, calls>>
    /\ UNCHANGED condVars

\* The host calls the registered service: observe(call) starts.
ServiceCall ==
    /\ pc = <<"host", "ready", 0>>
    /\ <<TRACKER_DOMAIN, SERVICE_RANDOMIZE_DEVICE_TRACKER_DATA>> \in registered
    /\ calls < MaxCalls
    /\ calls' = calls + 1
    /\ pc' = <<"service", "observe", 1>>
    /\ UNCHANGED <<seen_ids, last_see, registered, setup_result>>
    /\ UNCHANGED condVars

\* Lines 30-31, called as the service.
ServiceObserve ==
    /\ \E i \in DOMAIN ObserveCalls :
           ObserveSee("service", i, IF i = Len(ObserveCalls) THEN 0 ELSE i + 1)
    /\ UNCHANGED <<registered, setup_result, calls>>
    /\ UNCHANGED condVars

\* observe() returns to the host.
ServiceReturns ==
    /\ pc = <<"service", "after_observe", 0>>
    /\ pc' = <<"host", "ready", 0>>
    /\ UNCHANGED <<seen_ids, last_see, registered, setup_result, calls>>
    /\ UNCHANGED condVars

Init ==
    /\ op = "idle"
    /\ device_id = NONE
    /\ registry = <<>>
    /\ lookups = <<>>
    /\ conditions = <<>>
    /\ raised = NONE
    /\ message = <<>>
    /\ raw_config = EmptyDict
    /\ config = EmptyDict
    /\ config_ok = FALSE
    /\ from_catalog = FALSE
    /\ numeric_state_config = EmptyDict
    /\ unit_answer = NOT_CALLED
    /\ extra_fields = {}
    /\ pc = <<"setup_scanner", "observe", 1>>
    /\ seen_ids = <<>>
    /\ last_see = EmptyDict
    /\ registered = {}
    /\ setup_result = NONE
    /\ calls = 0

Next ==
    \/ async_get_conditions
    \/ Validate
    \/ Configure
    \/ async_condition_from_config
    \/ async_get_condition_capabilities
    \/ Return

Spec == Init /\ [][Next]_vars

TrackerNext ==
    \/ SetupObserve
    \/ SeeReturns
    \/ SetupSeeHomeBoy
    \/ HomeBoySeeReturns
    \/ SetupRegister
    \/ SetupReturn
    \/ ServiceCall
    \/ ServiceObserve
    \/ ServiceReturns

TrackerSpec == Init /\ [][TrackerNext]_vars

(***************************************************************************)
(* Properties of the catalog builder.                                      *)
(***************************************************************************)
Returned(o) == op = o /\ raised = NONE

\* The descriptors of the returned list that carry entity id e, in order.
DescriptorsOf(e) == SelectSeq(conditions, LAMBDA d : d[CONF_ENTITY_ID] = e)

HasUnit(l) == l.unit_of_measurement \notin {NONE, "", RAISES, NOT_CALLED}
NoUnit(l) == l.unit_of_measurement \in {NONE, ""}

\* The condition types registered for a classification; "is_value" for an
\* absent classification and for one that is no key of the table.
RegisteredTypes(c) ==
    IF c \in DOMAIN ENTITY_CONDITIONS
    THEN [j \in DOMAIN ENTITY_CONDITIONS[c] |-> ENTITY_CONDITIONS[c][j][CONF_TYPE]]
    ELSE <<"is_value">>

FullDescriptor(type, dev, e) ==
    [type |-> type, condition |-> "device", device_id |-> dev,
     entity_id |-> e, domain |-> "sensor"]

\* C1: when async_get_conditions returns, every entity it looked up that has
\* a unit of measurement contributes exactly the templates registered for
\* its classification (the single "is_value" template when the
\* classification is absent or no key of the table), each extended with
\* condition "device", the given device id, the entity's id and the sensor
\* domain.
C1_TemplatesOfClassification ==
    Returned("async_get_conditions") =>
        \A i \in DOMAIN lookups :
            HasUnit(lookups[i]) =>
                LET types == RegisteredTypes(lookups[i].device_class)
                IN  DescriptorsOf(lookups[i].entity_id) =
                        [j \in DOMAIN types |->
                            FullDescriptor(types[j], device_id, lookups[i].entity_id)]

C1_Witness ==
    /\ Returned("async_get_conditions")
    /\ \E i, j \in DOMAIN lookups :
        /\ lookups[i].device_class = "battery" /\ HasUnit(lookups[i])
        /\ lookups[j].device_class = "timestamp" /\ HasUnit(lookups[j])
    /\ Len(conditions) = 2

\* C2: an entity whose unit lookup yields no unit has no descriptor in the
\* result, whatever its classification; the result is empty when no entity
\* of the loop has a unit.
C2_NoUnitNoDescriptor ==
    op = "async_get_conditions" =>
        /\ \A i \in DOMAIN lookups :
               NoUnit(lookups[i]) => DescriptorsOf(lookups[i].entity_id) = <<>>
        /\ (\A i \in DOMAIN lookups : NoUnit(lookups[i])) => conditions = <<>>

\* The end-to-end example: a "temperature" entity with unit "°C" and an
\* unclassified entity without unit give one "is_temperature" descriptor.
C2_Witness ==
    /\ Returned("async_get_conditions")
    /\ Len(lookups) = 2
    /\ lookups[1].device_class = "temperature" /\ lookups[1].unit_of_measurement = "°C"
    /\ lookups[2].device_class = NONE /\ lookups[2].unit_of_measurement = NONE
    /\ conditions =
           <<FullDescriptor("is_temperature", device_id, lookups[1].entity_id)>>

\* C9: the descriptors come from the sensor-domain entries of the requested
\* device only, and in the registry's order: the lookups are made for exactly
\* those entries, every descriptor carries the id of one of them, an entry of
\* another domain or device has no descriptor, and descriptors are ordered as
\* their entries are in the registry.
RegistryIndex(e) == CHOOSE k \in DOMAIN registry : registry[k].entity_id = e

C9_SensorEntriesOnly ==
    Returned("async_get_conditions") =>
        /\ \A k \in DOMAIN registry :
               (\E i \in DOMAIN lookups : lookups[i].entity_id = registry[k].entity_id)
                   <=> (registry[k].domain = "sensor" /\ registry[k].device_id = device_id)
        /\ \A i \in DOMAIN conditions :
               \E k \in DOMAIN registry :
                   /\ registry[k].entity_id = conditions[i][CONF_ENTITY_ID]
                   /\ registry[k].domain = "sensor"
                   /\ registry[k].device_id = device_id
        /\ \A k \in DOMAIN registry :
               (registry[k].domain # "sensor" \/ registry[k].device_id # device_id)
                   => DescriptorsOf(registry[k].entity_id) = <<>>
        /\ \A i, j \in DOMAIN conditions :
               i < j => RegistryIndex(conditions[i][CONF_ENTITY_ID])
                            <= RegistryIndex(conditions[j][CONF_ENTITY_ID])

C9_Witness ==
    /\ Returned("async_get_conditions")
    /\ Len(registry) = 2
    /\ registry[1].domain = "light" /\ registry[1].device_id = device_id
    /\ registry[2].domain = "sensor" /\ registry[2].device_id = device_id
    /\ Len(conditions) = 1
    /\ conditions[1][CONF_ENTITY_ID] = registry[2].entity_id

\* C6 as claimed: async_get_conditions never surfaces an error, whatever the
\* host lookups answer.
C6_CatalogNeverRaises ==
    op = "async_get_conditions" => raised = NONE

\* C6 as amended: async_get_conditions returns a list exactly when none of
\* its unit lookups fails; a failing lookup is not handled, the call fails
\* with the host's error and returns nothing.  Only the capability builder
\* raises the invalid-configuration error, and it raises that one (not the
\* host's) for a failing lookup as for a missing unit.
C6_CatalogPropagatesLookupError ==
    /\ op = "async_get_conditions" =>
           /\ (raised = NONE) <=>
                  (\A i \in DOMAIN lookups : lookups[i].unit_of_measurement # RAISES)
           /\ raised # NONE => raised = "HomeAssistantError" /\ conditions = <<>>
    /\ raised = "InvalidDeviceAutomationConfig" =>
           op = "async_get_condition_capabilities"
    /\ op = "async_get_condition_capabilities" =>
           (raised = "InvalidDeviceAutomationConfig") <=> (unit_answer \in {NONE, "", RAISES})
    /\ op = "async_get_condition_capabilities" =>
           raised \in {NONE, "InvalidDeviceAutomationConfig"}

\* The lookup fails for the second entry after the first had a unit.
C6_Witness ==
    /\ op = "async_get_conditions"
    /\ raised = "HomeAssistantError"
    /\ Len(lookups) = 2
    /\ HasUnit(lookups[1])
    /\ lookups[2].unit_of_measurement = RAISES

(***************************************************************************)
(* Properties of CONDITION_SCHEMA and async_condition_from_config.         *)
(***************************************************************************)
BoundKeys == {"above", "below"}
RequiredKeys == {"condition", "device_id", "domain", "entity_id", "type"}

\* The condition types the table can produce.
TableTypes ==
    UNION {{ENTITY_CONDITIONS[c][j][CONF_TYPE] : j \in DOMAIN ENTITY_CONDITIONS[c]} :
              c \in DOMAIN ENTITY_CONDITIONS}

IsNumber(x) == x \in {PyInt5, PyStr75, PyFloat25}

\* Everything but the presence of a bound is as CONDITION_SCHEMA wants it.
OtherwiseValid(c) ==
    /\ RequiredKeys \subseteq DOMAIN c
    /\ DOMAIN c \subseteq RequiredKeys \cup BoundKeys
    /\ c["condition"] = "device"
    /\ c["entity_id"].domain # ""
    /\ c["type"] \in TableTypes
    /\ \A k \in BoundKeys \cap DOMAIN c : IsNumber(c[k])

\* C3: the numeric configuration built from a validated configuration has
\* condition kind "numeric_state", the same entity id, exactly the bounds
\* the validated configuration has, with the same values, and no other key.
C3_BoundsCopiedUnchanged ==
    op = "async_condition_from_config" =>
        /\ numeric_state_config["condition"] = "numeric_state"
        /\ numeric_state_config["entity_id"] = config["entity_id"]
        /\ DOMAIN numeric_state_config =
               {"condition", "entity_id"} \cup (BoundKeys \cap DOMAIN config)
        /\ \A k \in BoundKeys \cap DOMAIN config :
               numeric_state_config[k] = config[k]

C3_Witness ==
    /\ op = "async_condition_from_config"
    /\ DOMAIN numeric_state_config = {"condition", "entity_id", "above", "below"}
    /\ numeric_state_config["above"] # numeric_state_config["below"]

C3_WitnessLowerOnly ==
    /\ op = "async_condition_from_config"
    /\ DOMAIN numeric_state_config = {"condition", "entity_id", "above"}

C3_WitnessUpperOnly ==
    /\ op = "async_condition_from_config"
    /\ DOMAIN numeric_state_config = {"condition", "entity_id", "below"}

\* C4: CONDITION_SCHEMA rejects a configuration with neither bound, so the
\* configuration async_condition_from_config is given always has one; a
\* configuration with a bound whose fields are otherwise valid is accepted.
C4_BoundRequired ==
    /\ op = "CONDITION_SCHEMA" =>
           /\ BoundKeys \cap DOMAIN raw_config = {} => ~config_ok /\ raised = "Invalid"
           /\ (OtherwiseValid(raw_config) /\ BoundKeys \cap DOMAIN raw_config # {})
                  => config_ok /\ raised = NONE
    /\ op = "async_condition_from_config" => BoundKeys \cap DOMAIN config # {}

C4_Witness ==
    /\ op = "CONDITION_SCHEMA"
    /\ OtherwiseValid(raw_config)
    /\ BoundKeys \cap DOMAIN raw_config = {}
    /\ ~config_ok

\* C8: the types the table can produce are the types CONDITION_SCHEMA
\* accepts: a descriptor of the catalog completed with numeric bounds passes
\* validation, and an accepted configuration's type is one of the table's.
C8_TableTypesAreSchemaTypes ==
    /\ (op = "CONDITION_SCHEMA" /\ from_catalog
            /\ \A k \in BoundKeys \cap DOMAIN raw_config : IsNumber(raw_config[k]))
           => config_ok
    /\ config_ok => config["type"] \in TableTypes

C8_Witness ==
    /\ op = "CONDITION_SCHEMA"
    /\ from_catalog
    /\ config_ok
    /\ config["type"] = "is_ozone"

(***************************************************************************)
(* Properties of the capability builder.                                   *)
(***************************************************************************)
MessageNames(m, e) == \E i \in DOMAIN m.args : m.args[i] = e

\* C5: async_get_condition_capabilities fails with the invalid-configuration
\* error when the unit lookup raises or yields no unit, and the error's
\* message names the configured entity id.
C5_ErrorNamesEntity ==
    (op = "async_get_condition_capabilities" /\ unit_answer \in {NONE, "", RAISES}) =>
        /\ raised = "InvalidDeviceAutomationConfig"
        /\ \E i \in DOMAIN message : MessageNames(message[i], raw_config["entity_id"])

\* C7: with a non-empty unit u the returned schema has exactly two fields,
\* above and below, both optional and both with display suffix u.
C7_TwoOptionalFieldsWithUnit ==
    (op = "async_get_condition_capabilities" /\ unit_answer \notin {NONE, "", RAISES}) =>
        /\ raised = NONE
        /\ Cardinality(extra_fields) = 2
        /\ {f.key : f \in extra_fields} = {"above", "below"}
        /\ \A f \in extra_fields : f.marker = "Optional" /\ f.suffix = unit_answer

C7_Witness ==
    /\ op = "async_get_condition_capabilities"
    /\ unit_answer = "W"
    /\ Cardinality(extra_fields) = 2

(***************************************************************************)
(* Properties of the demo device tracker.                                  *)
(***************************************************************************)
RECURSIVE Repeat(_, _)
Repeat(s, n) == IF n = 0 THEN <<>> ELSE s \o Repeat(s, n - 1)

\* The sightings after the service ran n times.
ExpectedIds(n) ==
    <<"demo_paulus", "demo_anne_therese", "demo_home_boy">>
        \o Repeat(<<"demo_paulus", "demo_anne_therese">>, n)

IsPrefix(s, t) == Len(s) <= Len(t) /\ s = SubSeq(t, 1, Len(s))

RandomizeService == <<"demo", "randomize_device_tracker_data">>

====
